---- MODULE Spec2Model ----
(***************************************************************************)
(* Catalog extraction from the "Listas" sheet, choice projection, document *)
(* writing and the generation request of the chemotherapy prescription     *)
(* generator (generate_prescription.py, app.py).                           *)
(*                                                                         *)
(* Strings are sequences of one-character strings, so that str(), strip(), *)
(* lower(), "in" and sorted() are computed and not assumed.  A sheet is a  *)
(* sparse grid: shape plus the cells that are not empty (NaN elsewhere).   *)
(***************************************************************************)
EXTENDS Integers, Sequences, FiniteSets, TLC

VARIABLES plantilla, choices, pc, req, tmpd, result

vars == <<plantilla, choices, pc, req, tmpd, result>>

None == "None"

Min(a, b) == IF a < b THEN a ELSE b
Max(a, b) == IF a > b THEN a ELSE b

(***************************************************************************)
(* Python strings                                                          *)
(***************************************************************************)

\* Characters in code point order (the order sorted() compares by).
CharOrder ==
  << " ", "-", "0", "1", "2", "3", "4", "5", "6", "7", "8", "9",
     "A", "B", "C", "D", "E", "F", "G", "H", "I", "J", "K", "L", "M",
     "N", "O", "P", "Q", "R", "S", "T", "U", "V", "W", "X", "Y", "Z",
     "a", "b", "c", "d", "e", "f", "g", "h", "i", "j", "k", "l", "m",
     "n", "o", "p", "q", "r", "s", "t", "u", "v", "w", "x", "y", "z",
     "Ó", "ó" >>

Ord(ch) == CHOOSE i \in 1..Len(CharOrder) : CharOrder[i] = ch

UpperChars ==
  << "A", "B", "C", "D", "E", "F", "G", "H", "I", "J", "K", "L", "M",
     "N", "O", "P", "Q", "R", "S", "T", "U", "V", "W", "X", "Y", "Z", "Ó" >>

LowerChars ==
  << "a", "b", "c", "d", "e", "f", "g", "h", "i", "j", "k", "l", "m",
     "n", "o", "p", "q", "r", "s", "t", "u", "v", "w", "x", "y", "z", "ó" >>

LowerChar(ch) ==
  IF \E i \in 1..Len(UpperChars) : UpperChars[i] = ch
  THEN LowerChars[CHOOSE i \in 1..Len(UpperChars) : UpperChars[i] = ch]
  ELSE ch

\* str.lower()
Lower(s) == [i \in 1..Len(s) |-> LowerChar(s[i])]

\* str.strip(): drops leading and trailing whitespace
Strip(s) ==
  LET keep == {i \in 1..Len(s) : s[i] # " "}
  IN  IF keep = {} THEN << >>
      ELSE LET lo == CHOOSE i \in keep : \A j \in keep : i <= j
               hi == CHOOSE i \in keep : \A j \in keep : i >= j
           IN  SubSeq(s, lo, hi)

\* sub in s
Contains(s, sub) ==
  \E i \in 1..(Len(s) - Len(sub) + 1) : SubSeq(s, i, i + Len(sub) - 1) = sub

\* s < t, as Python compares strings
StrLess(s, t) ==
  \E k \in 1..(Len(t)) :
     /\ k <= Len(s) + 1
     /\ \A j \in 1..(k - 1) : s[j] = t[j]
     /\ \/ k = Len(s) + 1
        \/ (k <= Len(s) /\ Ord(s[k]) < Ord(t[k]))

RECURSIVE Join(_)
\* " ".join(strs)
Join(strs) ==
  IF strs = << >> THEN << >>
  ELSE IF Len(strs) = 1 THEN strs[1]
  ELSE strs[1] \o << " " >> \o Join(Tail(strs))

RECURSIVE InsertSorted(_, _)
InsertSorted(x, sorted) ==
  IF sorted = << >> THEN << x >>
  ELSE IF StrLess(x, sorted[1]) THEN << x >> \o sorted
  ELSE << sorted[1] >> \o InsertSorted(x, Tail(sorted))

RECURSIVE Sorted(_)
\* sorted(list of str)
Sorted(xs) ==
  IF xs = << >> THEN << >>
  ELSE InsertSorted(xs[Len(xs)], Sorted(SubSeq(xs, 1, Len(xs) - 1)))

Digits == << "0", "1", "2", "3", "4", "5", "6", "7", "8", "9" >>

(***************************************************************************)
(* Cells of the sheet as pandas reads them: text, number or NaN            *)
(***************************************************************************)

NaN == [kind |-> "nan", s |-> << >>, n |-> 0]
Text(s) == [kind |-> "text", s |-> s, n |-> 0]
Num(n) == [kind |-> "num", s |-> << >>, n |-> n]

\* str(value) / Series.astype(str)
Str(v) ==
  IF v.kind = "text" THEN v.s
  ELSE IF v.kind = "num" THEN << Digits[v.n + 1] >>
  ELSE << "n", "a", "n" >>

\* Series.isna()
IsNa(v) == v.kind = "nan"

\* raw.iat[r, c]
iat(raw, r, c) ==
  IF << r, c >> \in DOMAIN raw.cells THEN raw.cells[<< r, c >>] ELSE NaN

\* raw.iloc[r, c0:c1]: the slice is cut at the last column of the grid
iloc(raw, r, c0, c1) ==
  [j \in 1..(Min(c1, raw.ncols) - c0) |-> iat(raw, r, c0 + j - 1)]

(***************************************************************************)
(* extract_catalog_from_excel                                              *)
(***************************************************************************)

MaxScanRows == 200
MaxScanCols == 40
TableWidth == 6
BucketRowsUp == 8
BucketColsLeft == 2

kw_medicamento == << "m", "e", "d", "i", "c", "a", "m", "e", "n", "t", "o" >>
kw_Medicamento == << "M", "e", "d", "i", "c", "a", "m", "e", "n", "t", "o" >>
kw_premedic == << "p", "r", "e", "m", "e", "d", "i", "c" >>
kw_anticuerp == << "a", "n", "t", "i", "c", "u", "e", "r", "p" >>
kw_quimiot == << "q", "u", "i", "m", "i", "o", "t" >>
kw_otros == << "o", "t", "r", "o", "s" >>

\* the separators dropped from a table: "-", "nan", "None"
Placeholders ==
  { << "-" >>, << "n", "a", "n" >>, << "N", "o", "n", "e" >> }

RECURSIVE InferBucketFrom(_, _, _, _)
InferBucketFrom(raw, up, lo, c) ==
  IF up < lo THEN "Catálogo"
  ELSE LET row_vals == iloc(raw, up, Max(0, c - BucketColsLeft), c + 1)
           txt == Join([j \in 1..Len(row_vals) |-> Lower(Str(row_vals[j]))])
       IN  IF Contains(txt, kw_premedic) THEN "Premedicación"
           ELSE IF Contains(txt, kw_anticuerp) THEN "Anticuerpos"
           ELSE IF Contains(txt, kw_quimiot) THEN "Quimioterapia"
           ELSE IF Contains(txt, kw_otros) THEN "Otros"
           ELSE InferBucketFrom(raw, up - 1, lo, c)

\* as InferBucket, looking one row too far up
InferBucket_far(raw, r, c) ==
  InferBucketFrom(raw, r - 1, Max(0, r - (BucketRowsUp + 1)), c)

\* _infer_bucket(raw, r, c): rows r-1 down to max(0, r-8)
InferBucket(raw, r, c) ==
  InferBucketFrom(raw, r - 1, Max(0, r - BucketRowsUp), c)

\* line 36: the cell is a candidate header
IsCandidate(raw, r, c) ==
  Lower(Strip(Str(iat(raw, r, c)))) = kw_medicamento

\* as HeaderOk, without the second check
HeaderOk_any(raw, r, c) == TRUE

\* line 39: the candidate is kept ("Medicamento" in header[0])
HeaderOk(raw, r, c) ==
  LET header == iloc(raw, r, c, c + TableWidth)
  IN  Contains(header[1].s, kw_Medicamento)

\* the cells the two loops of lines 34-35 visit
ScanCells(raw) ==
  (0..(Min(MaxScanRows, raw.nrows) - 1))
     \X (0..(Min(MaxScanCols, raw.ncols - 1) - 1))

RowMajorLess(p, q) == p[1] < q[1] \/ (p[1] = q[1] /\ p[2] < q[2])

RECURSIVE RowMajor(_)
\* a set of positions in the order the loops visit them
RowMajor(ps) ==
  IF ps = {} THEN << >>
  ELSE LET p == CHOOSE x \in ps : \A y \in ps : x = y \/ RowMajorLess(x, y)
       IN  << p >> \o RowMajor(ps \ {p})

\* the anchors, in the order the loops reach them
Anchors(raw) ==
  RowMajor({p \in ScanCells(raw) :
              IsCandidate(raw, p[1], p[2]) /\ HeaderOk(raw, p[1], p[2])})

RECURSIVE ReadRowsFrom(_, _, _)
\* lines 44-49: down from rr until a row of the slice is all NaN
ReadRowsFrom(raw, rr, c) ==
  IF rr >= raw.nrows THEN << >>
  ELSE LET row == iloc(raw, rr, c, c + TableWidth)
       IN  IF \A j \in 1..Len(row) : IsNa(row[j]) THEN << >>
           ELSE << row >> \o ReadRowsFrom(raw, rr + 1, c)

RECURSIVE ReadRowsToEmptyName(_, _, _)
ReadRowsToEmptyName(raw, rr, c) ==
  IF rr >= raw.nrows THEN << >>
  ELSE LET row == iloc(raw, rr, c, c + TableWidth)
       IN  IF IsNa(row[1]) THEN << >>
           ELSE << row >> \o ReadRowsToEmptyName(raw, rr + 1, c)

\* as ReadRows, ending at the first row whose name cell is empty
ReadRows_name(raw, r, c) == ReadRowsToEmptyName(raw, r + 1, c)

ReadRows(raw, r, c) == ReadRowsFrom(raw, r + 1, c)

\* pd.DataFrame(rows, columns=[6 names]) raises ValueError when the rows
\* do not have 6 values (a slice cut at the edge of the grid)
FrameFits(rows) == rows = << >> \/ Len(rows[1]) = TableWidth

Entry(row, bucket) ==
  [bucket |-> bucket, Medicamento |-> row[1], Dosis |-> row[2],
   Solucion |-> row[3], VS |-> row[4], Tiempo |-> row[5], Via |-> row[6]]

\* as IsPlaceholder, without strip()
IsPlaceholder_raw(name) == Str(name) \in Placeholders

\* line 55
IsPlaceholder(name) == Strip(Str(name)) \in Placeholders

RECURSIVE DropPlaceholders(_)
DropPlaceholders(df) ==
  IF df = << >> THEN << >>
  ELSE IF IsPlaceholder(df[1].Medicamento) THEN DropPlaceholders(Tail(df))
  ELSE << df[1] >> \o DropPlaceholders(Tail(df))

\* lines 38-56 for one anchor: rows is the body as read, df the frame appended
Frame(raw, r, c) ==
  LET rows == ReadRows(raw, r, c)
      bucket == InferBucket(raw, r, c)
  IN  IF ~FrameFits(rows)
      THEN [r |-> r, c |-> c, rows |-> rows, raised |-> TRUE,
            bucket |-> None, df |-> << >>]
      ELSE [r |-> r, c |-> c, rows |-> rows, raised |-> FALSE,
            bucket |-> bucket,
            df |-> DropPlaceholders(
                     [i \in 1..Len(rows) |-> Entry(rows[i], bucket)])]

RECURSIVE Frames(_, _)
\* the frames of the anchors in turn; the scan ends at the first that raises
Frames(raw, anchors) ==
  IF anchors = << >> THEN << >>
  ELSE LET f == Frame(raw, anchors[1][1], anchors[1][2])
       IN  IF f.raised THEN << f >>
           ELSE << f >> \o Frames(raw, Tail(anchors))

RECURSIVE Concat(_)
\* pd.concat(cat_frames, ignore_index=True)
Concat(frames) ==
  IF frames = << >> THEN << >>
  ELSE frames[1].df \o Concat(Tail(frames))

\* cat["bucket"].fillna("Desconocido")
FillBucket(e) ==
  IF e.bucket = None THEN [e EXCEPT !.bucket = "Desconocido"] ELSE e

SameKey(a, b) == a.bucket = b.bucket /\ a.Medicamento = b.Medicamento

\* as DropDuplicates, with keep="last"
DropDuplicates_last(cat) ==
  LET keep == {i \in 1..Len(cat) :
                 \A j \in (i + 1)..Len(cat) : ~SameKey(cat[j], cat[i])}
      F[n \in 0..Len(cat)] ==
        IF n = 0 THEN << >>
        ELSE IF n \in keep THEN Append(F[n - 1], cat[n]) ELSE F[n - 1]
  IN  F[Len(cat)]

\* drop_duplicates(subset=["bucket","Medicamento"], keep="first")
DropDuplicates(cat) ==
  LET keep == {i \in 1..Len(cat) : \A j \in 1..(i - 1) : ~SameKey(cat[j], cat[i])}
      F[n \in 0..Len(cat)] ==
        IF n = 0 THEN << >>
        ELSE IF n \in keep THEN Append(F[n - 1], cat[n]) ELSE F[n - 1]
  IN  F[Len(cat)]

\* lines 58-66
Normalize(frames) ==
  LET cat == Concat(frames)
  IN  DropDuplicates([i \in 1..Len(cat) |-> FillBucket(cat[i])])

\* extract_catalog_from_excel(xlsx_file): the frames built, whether the
\* call raised, and the catalog returned
extract_catalog_from_excel(raw) ==
  LET frames == Frames(raw, Anchors(raw))
      raised == \E i \in 1..Len(frames) : frames[i].raised
  IN  [raised |-> raised,
       cat_frames |-> frames,
       cat |-> IF raised THEN << >> ELSE Normalize(frames)]

(***************************************************************************)
(* human_bucket_choices                                                    *)
(***************************************************************************)

RECURSIVE NamesOf(_, _)
\* df_cat[df_cat["bucket"]==bucket]["Medicamento"].astype(str).tolist()
NamesOf(cat, bucket) ==
  IF cat = << >> THEN << >>
  ELSE IF cat[1].bucket = bucket
       THEN << Str(cat[1].Medicamento) >> \o NamesOf(Tail(cat), bucket)
       ELSE NamesOf(Tail(cat), bucket)

bucket_choices(cat, bucket) == Sorted(NamesOf(cat, bucket))

human_bucket_choices(cat) ==
  [prem |-> bucket_choices(cat, "Premedicación"),
   acs |-> bucket_choices(cat, "Anticuerpos"),
   qx |-> bucket_choices(cat, "Quimioterapia"),
   otros |-> bucket_choices(cat, "Otros")]

(***************************************************************************)
(* generate_indication_xlsx                                                *)
(***************************************************************************)

\* TABLE_ORDER, with the selections key write_table reads for each bucket
TABLE_ORDER ==
  << [title |-> "P R E M E D I C A C I Ó N", bucket |-> "Premedicación",
      key |-> "premedicacion"],
     [title |-> "A N T I C U E R P O S  M O N O C L O N A L E S",
      bucket |-> "Anticuerpos", key |-> "anticuerpos"],
     [title |-> "Q U I M I O T E R A P I A", bucket |-> "Quimioterapia",
      key |-> "quimioterapia"],
     [title |-> "O T R O S", bucket |-> "Otros", key |-> "otros"] >>

FirstPatientRow == 3
PatientFields == 11

\* cat[cat["Medicamento"].astype(str)==str(med)].head(1) within the bucket
Lookup(cat, bucket, med) ==
  LET hits == {i \in 1..Len(cat) :
                 cat[i].bucket = bucket /\ Str(cat[i].Medicamento) = med}
  IN  IF hits = {} THEN << >>
      ELSE << cat[CHOOSE i \in hits : \A j \in hits : i <= j] >>

RECURSIVE WriteMeds_break(_, _, _, _)
\* as WriteMeds, leaving the loop at the first name not found
WriteMeds_break(cat, bucket, meds, start_row) ==
  IF meds = << >> THEN << >>
  ELSE LET row_df == Lookup(cat, bucket, meds[1])
       IN  IF row_df = << >> THEN << >>
           ELSE << [row |-> start_row, kind |-> "drug", bucket |-> bucket,
                    cells |-> << Text(meds[1]), row_df[1].Dosis,
                                 row_df[1].Solucion, row_df[1].VS,
                                 row_df[1].Tiempo, row_df[1].Via >>] >>
                \o WriteMeds_break(cat, bucket, Tail(meds), start_row + 1)

RECURSIVE WriteMeds(_, _, _, _)
\* lines 168-179: one sheet row per selected name found, others skipped
WriteMeds(cat, bucket, meds, start_row) ==
  IF meds = << >> THEN << >>
  ELSE LET row_df == Lookup(cat, bucket, meds[1])
       IN  IF row_df = << >>
           THEN WriteMeds(cat, bucket, Tail(meds), start_row)
           ELSE << [row |-> start_row, kind |-> "drug", bucket |-> bucket,
                    cells |-> << Text(meds[1]), row_df[1].Dosis,
                                 row_df[1].Solucion, row_df[1].VS,
                                 row_df[1].Tiempo, row_df[1].Via >>] >>
                \o WriteMeds(cat, bucket, Tail(meds), start_row + 1)

\* write_table(title, bucket, start_row): the rows written and the row the
\* next table starts at
write_table(cat, selections, t, start_row) ==
  LET drugs == WriteMeds(cat, t.bucket, selections[t.key], start_row + 2)
  IN  [rows |-> << [row |-> start_row, kind |-> "title", bucket |-> t.bucket,
                    cells |-> << >>],
                   [row |-> start_row + 1, kind |-> "cols", bucket |-> t.bucket,
                    cells |-> << >>] >> \o drugs,
       next |-> start_row + 2 + Len(drugs) + 1]

RECURSIVE WriteTables(_, _, _, _)
\* lines 187-188
WriteTables(cat, selections, tables, row) ==
  IF tables = << >> THEN << >>
  ELSE LET w == write_table(cat, selections, tables[1], row)
       IN  w.rows \o WriteTables(cat, selections, Tail(tables), w.next)

\* the table rows of the sheet "Indicaciones" (the patient block takes the
\* rows before them)
generate_indication_xlsx(cat, selections) ==
  WriteTables(cat, selections, TABLE_ORDER, FirstPatientRow + PatientFields + 1)

(***************************************************************************)
(* Inputs                                                                  *)
(***************************************************************************)

w_Medicamento == kw_Medicamento
w_MEDICAMENTO == << "M", "E", "D", "I", "C", "A", "M", "E", "N", "T", "O" >>
w_medicamento == kw_medicamento
w_Medicamento_sp == << " " >> \o kw_Medicamento \o << " " >>
w_PREMEDICACION ==
  << "P", "R", "E", "M", "E", "D", "I", "C", "A", "C", "I", "Ó", "N" >>
w_Anticuerpos == << "A", "n", "t", "i", "c", "u", "e", "r", "p", "o", "s" >>
w_Quimio_y_otros ==
  << "Q", "u", "i", "m", "i", "o", "t", "e", "r", "a", "p", "i", "a",
     " ", "y", " ", "o", "t", "r", "o", "s" >>
w_Otros == << "O", "t", "r", "o", "s" >>
w_Dexa == << "D", "e", "x", "a" >>
w_Onda == << "O", "n", "d", "a" >>
w_dash == << "-" >>
w_dash_sp == << " ", "-", " " >>
w_nan == << "n", "a", "n" >>
w_None == << "N", "o", "n", "e" >>
w_5 == << "5" >>
w_8mg == << "8", "m", "g" >>
w_4mg == << "4", "m", "g" >>
w_IV == << "I", "V" >>

\* body rows of a table, as the six cells of columns c..c+5
row_Dexa8 == << Text(w_Dexa), Text(w_8mg), NaN, NaN, NaN, Text(w_IV) >>
row_Dexa4 == << Text(w_Dexa), Text(w_4mg), NaN, NaN, NaN, NaN >>
row_Onda == << Text(w_Onda), NaN, NaN, NaN, NaN, NaN >>
row_blank == << NaN, NaN, NaN, NaN, NaN, NaN >>
row_dash == << Text(w_dash), NaN, NaN, NaN, NaN, NaN >>
row_noname == << NaN, Text(w_8mg), NaN, NaN, NaN, NaN >>
row_num5 == << Num(5), Text(w_8mg), NaN, NaN, NaN, NaN >>
row_txt5 == << Text(w_5), Text(w_4mg), NaN, NaN, NaN, NaN >>
row_dash_sp == << Text(w_dash_sp), Text(w_8mg), NaN, NaN, NaN, NaN >>
row_nan == << Text(w_nan), Text(w_8mg), NaN, NaN, NaN, NaN >>
row_None == << Text(w_None), Text(w_8mg), NaN, NaN, NaN, NaN >>

RowKinds ==
  { row_Dexa8, row_Dexa4, row_blank, row_dash, row_noname, row_num5 }

\* bodies with the other separators, and with a name as number and as text
OtherBodies ==
  { << k, row_Dexa8 >> : k \in { row_dash_sp, row_nan, row_None } }
  \cup { << row_txt5 >>, << row_num5, row_txt5 >>, << row_txt5, row_num5 >>,
         << row_Onda, row_txt5, row_Dexa8 >> }

MaxBody == 3
MaxSel == 2

SeqsUpTo(S, n) == UNION {[1..k -> S] : k \in 0..n}

NoCells == [p \in {} |-> NaN]

\* one cell, when it is on the sheet and not empty
Put(r, c, ncols, v) ==
  IF r >= 0 /\ c >= 0 /\ c < ncols /\ ~IsNa(v) THEN << r, c >> :> v ELSE NoCells

RECURSIVE PutRow(_, _, _, _, _)
PutRow(r, c, ncols, row, j) ==
  IF j > Len(row) THEN NoCells
  ELSE Put(r, c + j - 1, ncols, row[j]) @@ PutRow(r, c, ncols, row, j + 1)

RECURSIVE PutRows(_, _, _, _)
PutRows(r, c, ncols, rows) ==
  IF rows = << >> THEN NoCells
  ELSE PutRow(r, c, ncols, rows[1], 1) @@ PutRows(r + 1, c, ncols, Tail(rows))

\* a table: its header cell at (r, c), its body below
PutTable(r, c, ncols, header, body) ==
  Put(r, c, ncols, Text(header)) @@ PutRows(r + 1, c, ncols, body)

Sheet(nrows, ncols, cells) == [nrows |-> nrows, ncols |-> ncols, cells |-> cells]

Titles == { w_PREMEDICACION, w_Anticuerpos, w_Quimio_y_otros, w_Otros }

\* sheets with one table and section titles around its header
BucketSheets ==
  { Sheet(12, 9,
          Put(a[1] - d1, a[2] + o1, 9, Text(t1))
          @@ (IF t2 = << >> THEN NoCells
              ELSE Put(a[1] - (IF same THEN d1 ELSE 2), a[2] - 1, 9, Text(t2)))
          @@ PutTable(a[1], a[2], 9, w_Medicamento, << row_Dexa8 >>)) :
      a \in { << 10, 3 >>, << 2, 1 >>, << 0, 0 >> },
      d1 \in { 1, BucketRowsUp, BucketRowsUp + 1 },
      o1 \in { 0 - (BucketColsLeft + 1), 0 - BucketColsLeft, 0, 1 },
      t1 \in Titles,
      t2 \in { << >>, w_Otros, w_PREMEDICACION },
      same \in BOOLEAN }

\* sheets with one table under "PREMEDICACIÓN" and every body up to MaxBody rows
BodySheets ==
  { Sheet(2 + Len(body), TableWidth,
          Put(0, 0, TableWidth, Text(w_PREMEDICACION))
          @@ PutTable(1, 0, TableWidth, w_Medicamento, body)) :
      body \in SeqsUpTo(RowKinds, MaxBody) \cup OtherBodies }

\* sheets with two tables: the second below a blank row, right under the
\* first, or beside it
TwoTableSheets ==
  { Sheet(8, 12,
          Put(0, 0, 12, Text(w_PREMEDICACION))
          @@ PutTable(1, 0, 12, w_Medicamento, b1)
          @@ Put(a2[1] - 1, a2[2], 12, Text(t2))
          @@ PutTable(a2[1], a2[2], 12, w_Medicamento, b2)) :
      b1 \in { << row_Dexa8 >>, << row_Dexa4 >>, << row_Dexa8, row_Onda >> },
      a2 \in { << 5, 0 >>, << 4, 0 >>, << 1, 6 >> },
      t2 \in { w_PREMEDICACION, w_Otros },
      b2 \in { << row_Dexa4 >>, << row_Dexa8 >>, << row_Onda, row_Dexa4 >> } }

Headers == { w_Medicamento, w_MEDICAMENTO, w_medicamento, w_Medicamento_sp }

\* sheets of 7 columns with a header in any column, and a table after it or not
HeaderSheets ==
  { Sheet(6, 7,
          PutTable(1, c, 7, h, body)
          @@ (IF second THEN PutTable(4, 0, 7, w_Medicamento, << row_Onda >>)
              ELSE NoCells)) :
      h \in Headers, c \in 0..6, body \in { << >>, << row_Dexa8 >> },
      second \in BOOLEAN }

\* sheets larger than the scanned window, with a table at its edge
LargeSheets ==
  { Sheet(MaxScanRows + 2, TableWidth,
          PutTable(r, 0, TableWidth, w_Medicamento, << row_Dexa8 >>)) :
      r \in { MaxScanRows - 1, MaxScanRows } }
  \cup
  { Sheet(3, MaxScanCols + TableWidth,
          PutTable(1, c, MaxScanCols + TableWidth, w_Medicamento, << row_Dexa8 >>)) :
      c \in { MaxScanCols - 1, MaxScanCols } }

Sheets == BucketSheets \cup BodySheets \cup TwoTableSheets \cup HeaderSheets
            \cup LargeSheets

\* names a requester may select
SelNames == { w_Dexa, w_Onda, w_5 }

\* the value of a CheckboxGroup: names in the order ticked, none twice
Ticked ==
  { s \in SeqsUpTo(SelNames, MaxSel) :
      \A i, j \in 1..Len(s) : s[i] = s[j] => i = j }

\* the four selection lists of a request (every section is sent the same list)
Selections(s) ==
  [premedicacion |-> s, anticuerpos |-> s, quimioterapia |-> s, otros |-> s]

(***************************************************************************)
(* app.py: the upload handler and the generation request                   *)
(***************************************************************************)

NoChoices == [prem |-> << >>, acs |-> << >>, qx |-> << >>, otros |-> << >>]

NoReq ==
  [selections |-> Selections(<< >>), cat_frames |-> << >>, df_cat |-> << >>,
   ws |-> << >>]

NoResult == [file |-> None, status |-> None, raised |-> None]

f_dir == "tmpd"
f_in == "tmpd/plantilla.xlsx"
f_xlsx == "tmpd/Indicacion.xlsx"
f_pdf == "tmpd/Indicacion.pdf"

\* the upload component: empty, or holding one file
NoFile == << >>
File(g) == << g >>
SheetOf(f) == f[1]

Init ==
  /\ plantilla = NoFile
  /\ choices = NoChoices
  /\ pc = "idle"
  /\ req = NoReq
  /\ tmpd = {}
  /\ result = NoResult

\* load_catalog(file_obj) with a file: the four choice lists are replaced,
\* unless the extraction raises and the handler ends with them as they were
load_catalog(file_obj) ==
  LET x == extract_catalog_from_excel(file_obj)
  IN  IF x.raised THEN choices ELSE human_bucket_choices(x.cat)

\* plantilla.change with a file uploaded into the empty component
Upload(g) ==
  /\ pc = "idle"
  /\ plantilla = NoFile
  /\ plantilla' = File(g)
  /\ choices' = load_catalog(g)
  /\ UNCHANGED << pc, req, tmpd, result >>

\* plantilla.change with the file removed: load_catalog(None)
Clear ==
  /\ pc = "idle"
  /\ plantilla # NoFile
  /\ plantilla' = NoFile
  /\ choices' = NoChoices
  /\ UNCHANGED << pc, req, tmpd, result >>

\* on_generate, lines 38-39
Rejected ==
  /\ pc = "idle"
  /\ plantilla = NoFile
  /\ result' = [file |-> None, status |-> "Sube una plantilla Excel.",
                raised |-> None]
  /\ UNCHANGED << plantilla, choices, pc, req, tmpd >>

\* on_generate, lines 41-43: the temporary directory and the copied template
Begin(s) ==
  /\ pc = "idle"
  /\ plantilla # NoFile
  /\ tmpd' = tmpd \cup { f_dir, f_in }
  /\ req' = [NoReq EXCEPT !.selections = Selections(s)]
  /\ result' = NoResult
  /\ pc' = "extract"
  /\ UNCHANGED << plantilla, choices >>

\* leaving the with block: TemporaryDirectory removes the directory
Cleanup(files) == {}

\* as Raise, with the directory removed only on the normal return
Raise_leak(exc) ==
  /\ result' = [file |-> None, status |-> None, raised |-> exc]
  /\ tmpd' = tmpd
  /\ req' = NoReq
  /\ pc' = "idle"

\* the request ends with exception exc propagating out of on_generate
Raise(exc) ==
  /\ result' = [file |-> None, status |-> None, raised |-> exc]
  /\ tmpd' = Cleanup(tmpd)
  /\ req' = NoReq
  /\ pc' = "idle"

\* on_generate, line 46
Extract ==
  /\ pc = "extract"
  /\ LET x == extract_catalog_from_excel(SheetOf(plantilla))
     IN  IF x.raised
         THEN Raise("ValueError")
         ELSE /\ req' = [req EXCEPT !.cat_frames = x.cat_frames, !.df_cat = x.cat]
              /\ pc' = "write"
              /\ UNCHANGED << tmpd, result >>
  /\ UNCHANGED << plantilla, choices >>

\* on_generate, lines 75-82: the workbook is written, or xlsxwriter raises
Write(ok) ==
  /\ pc = "write"
  /\ IF ok
     THEN /\ req' = [req EXCEPT
                       !.ws = generate_indication_xlsx(req.df_cat, req.selections)]
          /\ tmpd' = tmpd \cup { f_xlsx }
          /\ pc' = "convert"
          /\ UNCHANGED result
     ELSE Raise("XlsxWriterException")
  /\ UNCHANGED << plantilla, choices >>

\* on_generate, lines 85-95: subprocess.run(..., check=True) and the return
Convert(returncode) ==
  /\ pc = "convert"
  /\ IF returncode = 0
     THEN /\ result' = [file |-> "pdf", status |-> "PDF generado", raised |-> None]
          /\ tmpd' = Cleanup(tmpd \cup { f_pdf })
          /\ req' = NoReq
          /\ pc' = "idle"
     ELSE Raise("CalledProcessError")
  /\ UNCHANGED << plantilla, choices >>

Next ==
  \/ \E g \in Sheets : Upload(g)
  \/ Clear
  \/ Rejected
  \/ \E s \in Ticked : Begin(s)
  \/ Extract
  \/ \E ok \in BOOLEAN : Write(ok)
  \/ \E returncode \in { 0, 1 } : Convert(returncode)

Spec == Init /\ [][Next]_vars

(***************************************************************************)
(* Properties.  They are stated over the request's state once the catalog  *)
(* has been extracted: the sheet, the frames built and the catalog.        *)
(***************************************************************************)

Extracted == pc \in { "write", "convert" }
raw_ == SheetOf(plantilla)
frames_ == req.cat_frames
FrameAt(r, c) == \E i \in 1..Len(frames_) : frames_[i].r = r /\ frames_[i].c = c

\* the lower-cased text of cell (r, c) contains kw
CellHas(r, c, kw) == Contains(Lower(Str(iat(raw_, r, c))), kw)

\* row up shows kw in the columns max(0, c-2)..c
TitleRowHas(up, c, kw) ==
  \E col \in Max(0, c - 2)..c : CellHas(up, col, kw)

TitleRow(up, c) ==
  \E kw \in { kw_premedic, kw_anticuerp, kw_quimiot, kw_otros } :
     TitleRowHas(up, c, kw)

\* the bucket the claim gives the anchor (r, c)
NearestTitleBucket(r, c) ==
  LET rows == { up \in Max(0, r - 8)..(r - 1) : TitleRow(up, c) }
  IN  IF rows = {} THEN "Catálogo"
      ELSE LET up == CHOOSE x \in rows : \A y \in rows : y <= x
           IN  IF TitleRowHas(up, c, kw_premedic) THEN "Premedicación"
               ELSE IF TitleRowHas(up, c, kw_anticuerp) THEN "Anticuerpos"
               ELSE IF TitleRowHas(up, c, kw_quimiot) THEN "Quimioterapia"
               ELSE "Otros"

\* C1: the bucket of every table is that of the nearest row, among the 8
\* rows above its header and in the header's column and the two to its left,
\* that shows a keyword, by the priority premedic > anticuerp > quimiot >
\* otros within the row, and "Catálogo" when no such row exists; every row
\* of the table carries that bucket.
C1_NearestTitleWins ==
  Extracted =>
    \A i \in 1..Len(frames_) :
       /\ frames_[i].bucket = NearestTitleBucket(frames_[i].r, frames_[i].c)
       /\ \A k \in 1..Len(frames_[i].df) :
             frames_[i].df[k].bucket = frames_[i].bucket

\* a table whose nearer title row shows only a lower-priority keyword and a
\* farther row in the window shows "premedic"
C1_Witness ==
  /\ Extracted
  /\ \E i \in 1..Len(frames_) :
       LET r == frames_[i].r
           c == frames_[i].c
       IN  \E near, far \in Max(0, r - 8)..(r - 1) :
              /\ far < near
              /\ TitleRowHas(near, c, kw_otros)
              /\ ~TitleRowHas(near, c, kw_premedic)
              /\ TitleRowHas(far, c, kw_premedic)
              /\ frames_[i].bucket = "Otros"
              /\ frames_[i].df # << >>

\* the entries of all tables in the order they were found
Discovered == Concat(frames_)

FirstWithKey(all, e) ==
  all[CHOOSE i \in 1..Len(all) :
        /\ SameKey(all[i], e)
        /\ \A j \in 1..(i - 1) : ~SameKey(all[j], e)]

\* C2: the catalog holds no two entries with the same (bucket, name); each
\* entry found has its pair in the catalog, and the entry of the catalog for
\* a pair is the first one found with it, tables taken in row-major order
\* of their headers and rows top to bottom.
C2_FirstOccurrenceKept ==
  Extracted =>
    /\ \A i, j \in 1..Len(req.df_cat) :
          SameKey(req.df_cat[i], req.df_cat[j]) => i = j
    /\ \A i \in 1..Len(req.df_cat) :
          /\ \E k \in 1..Len(Discovered) : SameKey(Discovered[k], req.df_cat[i])
          /\ req.df_cat[i] = FirstWithKey(Discovered, req.df_cat[i])
    /\ \A k \in 1..Len(Discovered) :
          \E i \in 1..Len(req.df_cat) : SameKey(req.df_cat[i], Discovered[k])
    /\ \A i, j \in 1..Len(frames_) :
          i < j => RowMajorLess(<< frames_[i].r, frames_[i].c >>,
                                << frames_[j].r, frames_[j].c >>)

\* two tables list the same name in the same bucket with different doses,
\* and the catalog has the dose of the earlier table
C2_Witness ==
  /\ Extracted
  /\ \E i, j \in 1..Len(frames_) :
       /\ i < j
       /\ \E a \in 1..Len(frames_[i].df), b \in 1..Len(frames_[j].df) :
            /\ SameKey(frames_[i].df[a], frames_[j].df[b])
            /\ frames_[i].df[a].Dosis # frames_[j].df[b].Dosis
            /\ \A a2 \in 1..(a - 1) : ~SameKey(frames_[i].df[a2], frames_[i].df[a])
            /\ \A i2 \in 1..(i - 1) : \A a2 \in 1..Len(frames_[i2].df) :
                  ~SameKey(frames_[i2].df[a2], frames_[i].df[a])
            /\ \E k \in 1..Len(req.df_cat) : req.df_cat[k] = frames_[i].df[a]

\* the six cells of columns c..c+5 of row rr are all empty
BlankRow(rr, c) == \A col \in c..(c + 5) : IsNa(iat(raw_, rr, col))

\* the first blank row below the header at (r, c), or the end of the grid
FirstBlank(r, c) ==
  LET blanks == { rr \in (r + 1)..(raw_.nrows - 1) : BlankRow(rr, c) }
  IN  IF blanks = {} THEN raw_.nrows
      ELSE CHOOSE x \in blanks : \A y \in blanks : x <= y

\* C3: the body read for a table is exactly the rows from the one below its
\* header to the one above the first blank row (or to the end of the grid),
\* each with the cells of columns c..c+5.
C3_BodyStopsAtFirstBlankRow ==
  Extracted =>
    \A i \in 1..Len(frames_) :
       LET r == frames_[i].r
           c == frames_[i].c
           k == FirstBlank(r, c)
       IN  /\ Len(frames_[i].rows) = k - r - 1
           /\ \A n \in 1..Len(frames_[i].rows) :
                 /\ Len(frames_[i].rows[n]) = Min(6, raw_.ncols - c)
                 /\ \A j \in 1..Len(frames_[i].rows[n]) :
                       frames_[i].rows[n][j] = iat(raw_, r + n, c + j - 1)

\* a table with a body, a blank row, and rows after the blank row that the
\* body does not have; one of its rows has an empty name cell
C3_Witness ==
  /\ Extracted
  /\ \E i \in 1..Len(frames_) :
       LET r == frames_[i].r
           c == frames_[i].c
           k == FirstBlank(r, c)
       IN  /\ Len(frames_[i].rows) >= 1
           /\ \E n \in 1..Len(frames_[i].rows) : IsNa(frames_[i].rows[n][1])
           /\ k + 1 < raw_.nrows
           /\ ~BlankRow(k + 1, c)

\* the trimmed string form of a name is one of the three separators
SeparatorName(v) ==
  \/ Strip(Str(v)) = << "-" >>
  \/ Strip(Str(v)) = << "n", "a", "n" >>
  \/ Strip(Str(v)) = << "N", "o", "n", "e" >>

\* the rows of a body that are not separators, in order, as entries
RECURSIVE KeptRows(_, _)
KeptRows(rows, bucket) ==
  IF rows = << >> THEN << >>
  ELSE IF SeparatorName(rows[1][1]) THEN KeptRows(Tail(rows), bucket)
  ELSE << [bucket |-> bucket, Medicamento |-> rows[1][1], Dosis |-> rows[1][2],
           Solucion |-> rows[1][3], VS |-> rows[1][4], Tiempo |-> rows[1][5],
           Via |-> rows[1][6]] >> \o KeptRows(Tail(rows), bucket)

\* C4: no entry of the catalog has a name whose trimmed string form is "-",
\* "nan" or "None"; every other row of a table's body is kept in its table,
\* cells unchanged (empty ones too), and its (bucket, name) is in the catalog.
C4_OnlySeparatorsDropped ==
  Extracted =>
    /\ \A k \in 1..Len(req.df_cat) : ~SeparatorName(req.df_cat[k].Medicamento)
    /\ \A i \in 1..Len(frames_) :
          /\ frames_[i].df = KeptRows(frames_[i].rows, frames_[i].bucket)
          /\ \A k \in 1..Len(frames_[i].df) :
                \E n \in 1..Len(req.df_cat) :
                   SameKey(req.df_cat[n], frames_[i].df[k])

\* a table with a row whose name is " - ", dropped, and a row kept with
\* empty optional cells
C4_Witness ==
  /\ Extracted
  /\ \E i \in 1..Len(frames_) :
       /\ \E n \in 1..Len(frames_[i].rows) :
             /\ frames_[i].rows[n][1].kind = "text"
             /\ frames_[i].rows[n][1].s = << " ", "-", " " >>
       /\ \E k \in 1..Len(req.df_cat) :
             /\ IsNa(req.df_cat[k].Solucion)
             /\ ~IsNa(req.df_cat[k].Via)
       /\ Len(frames_[i].df) < Len(frames_[i].rows)

\* the text of cell p is exactly "Medicamento"
IsMedicamento(p) ==
  /\ raw_.cells[p].kind = "text"
  /\ raw_.cells[p].s = << "M", "e", "d", "i", "c", "a", "m", "e", "n", "t", "o" >>

\* C5: every cell at a row below 200 and a column below 40 whose text is
\* "Medicamento" is the header of an extracted table, whatever its column, and
\* no table has its header at row 200 or more, or column 40 or more.
C5_EveryMedicamentoCellIsAnAnchor ==
  Extracted =>
    /\ \A p \in DOMAIN raw_.cells :
          (IsMedicamento(p) /\ p[1] < 200 /\ p[2] < 40) => FrameAt(p[1], p[2])
    /\ \A i \in 1..Len(frames_) : frames_[i].r < 200 /\ frames_[i].c < 40

\* the names, as strings, of the entries of a bucket
BucketNames(b) ==
  { Str(req.df_cat[k].Medicamento) :
      k \in { n \in 1..Len(req.df_cat) : req.df_cat[n].bucket = b } }

\* xs is sorted and holds no string twice
StrictlyIncreasing(xs) == \A i \in 1..(Len(xs) - 1) : StrLess(xs[i], xs[i + 1])

ChoicesOk(xs, b) ==
  /\ StrictlyIncreasing(xs)
  /\ { xs[i] : i \in 1..Len(xs) } = BucketNames(b)

\* C6: for the catalog of the uploaded sheet, each of the four choice lists
\* is sorted, holds the names of exactly the entries of its bucket, and
\* holds no string twice.
C6_ChoicesSortedDistinct ==
  Extracted =>
    /\ ChoicesOk(choices.prem, "Premedicación")
    /\ ChoicesOk(choices.acs, "Anticuerpos")
    /\ ChoicesOk(choices.qx, "Quimioterapia")
    /\ ChoicesOk(choices.otros, "Otros")

SectionBucket(q) ==
  << "Premedicación", "Anticuerpos", "Quimioterapia", "Otros" >>[q]
SectionSelection(q) ==
  << req.selections.premedicacion, req.selections.anticuerpos,
     req.selections.quimioterapia, req.selections.otros >>[q]

InBucket(b, med) ==
  \E k \in 1..Len(req.df_cat) :
     req.df_cat[k].bucket = b /\ Str(req.df_cat[k].Medicamento) = med

\* the selection of section q without the names its bucket does not have
FoundNames(q) ==
  SelectSeq(SectionSelection(q), LAMBDA med : InBucket(SectionBucket(q), med))

\* the drug rows the sheet has for section q
DrugRows(q) ==
  SelectSeq(req.ws, LAMBDA w : w.kind = "drug" /\ w.bucket = SectionBucket(q))

RECURSIVE SectionStart(_)
\* the sheet row of the title of section q: row 15 for the first, and two
\* header rows, the drug rows and one blank row further for each next one
SectionStart(q) ==
  IF q = 1 THEN 15 ELSE SectionStart(q - 1) + 2 + Len(FoundNames(q - 1)) + 1

C8_FailuresAreReported ==
  pc = "idle" =>
    /\ result.raised # "CalledProcessError"
    /\ (result.status = "Sube una plantilla Excel." =>
          result.file = None /\ result.raised = None)

\* C9: when no request is running the temporary directory and its files are
\* gone, however the last request ended; while one runs they exist.
C9_TemporaryStorageReleased ==
  /\ pc = "idle" => tmpd = {}
  /\ pc # "idle" => { f_dir, f_in } \subseteq tmpd
  /\ pc = "convert" => f_xlsx \in tmpd

\* a request has ended with the converter failing and nothing is left
C9_Witness ==
  /\ pc = "idle"
  /\ result.raised = "CalledProcessError"
  /\ tmpd = {}

\* the trimmed, lower-cased text of cell p is "medicamento"
Candidate(p) ==
  Lower(Strip(Str(raw_.cells[p])))
    = << "m", "e", "d", "i", "c", "a", "m", "e", "n", "t", "o" >>

Scanned(p) ==
  p[1] < Min(200, raw_.nrows) /\ p[2] < Min(40, raw_.ncols - 1)

\* C10: a scanned cell whose trimmed, lower-cased text is "medicamento" heads
\* a table exactly when its raw text contains "Medicamento"; every table is
\* headed by such a cell and the catalog has entries of these tables only.
C10_TwoStageHeaderCheck ==
  Extracted =>
    /\ \A p \in DOMAIN raw_.cells :
          (Scanned(p) /\ Candidate(p)) =>
             (FrameAt(p[1], p[2])
                <=> Contains(raw_.cells[p].s,
                             << "M", "e", "d", "i", "c", "a", "m", "e", "n", "t", "o" >>))
    /\ \A i \in 1..Len(frames_) :
          /\ << frames_[i].r, frames_[i].c >> \in DOMAIN raw_.cells
          /\ Candidate(<< frames_[i].r, frames_[i].c >>)
    /\ \A k \in 1..Len(req.df_cat) :
          \E i \in 1..Len(frames_) : \E n \in 1..Len(frames_[i].df) :
             frames_[i].df[n] = req.df_cat[k]

\* a sheet with a candidate spelled otherwise, which heads no table though
\* rows follow it, and a header with spaces around it, which does
C10_Witness ==
  /\ Extracted
  /\ \E p \in DOMAIN raw_.cells :
        /\ Scanned(p) /\ Candidate(p) /\ ~FrameAt(p[1], p[2])
        /\ ~IsNa(iat(raw_, p[1] + 1, p[2]))
  /\ \E i \in 1..Len(frames_) : frames_[i].df # << >>

====
